---- MODULE Spec2Model ----
(***************************************************************************)
(* Model of examples/src/bin/debug_over_wifi.rs: the CAN-to-TCP diagnostic *)
(* bridge.  Two of its tasks are modelled here:                            *)
(*   receiver  - the Bus Receiver task (lines 228-260)                     *)
(*   main      - the Diagnostic Server loop (lines 167-225)                *)
(* coupled by the Frame Channel, TwaiOutbox (line 63).  The position of    *)
(* each task is the await it is suspended at; one action is the code that  *)
(* runs when that await completes, up to the next await.                   *)
(***************************************************************************)
EXTENDS Integers, Sequences, FiniteSets, TLC

\* ------------------------------------------------------------------ bounds
\* Number of extended-format frames the CAN bus delivers in one run.
MaxExt == 17

\* ------------------------------------------------------- program constants
\* type TwaiOutbox = Channel<NoopRawMutex, CanFrame, 16>
Capacity == 16
\* size == 1 && buffer[0] == 0xFA
RESET_CMD == 250
\* let flash_addr = 0xd000
flash_addr == 53248
\* let mut bytes = [0u8; 32]
FlashLen == 32
\* *byte = 0xFF
FlashFill == 255
\* Timer::after(Duration::from_millis(1000)) in the teardown
CloseDelayMs == 1000
\* heapless::String<80>
RecordCap == 80
\* data: [u8; 8]
DataLen == 8

VARIABLES
    chan,        \* the Frame Channel content, oldest first
    rxPc,        \* receiver: "recv" (rx.receive_async) or "send" (channel.send)
    rxFrame,     \* receiver: the CanFrame held by a suspended send
    rxLast,      \* receiver: the result of the last bus receive and what was done
    extSeq,      \* number of extended frames decoded so far
    sent,        \* history: CanFrames passed to channel.send, in call order
    delivered,   \* history: CanFrames returned by channel.receive, in order
    srvPc,       \* main: the await (or blocking call) it is at
    cmd,         \* main: result of this session's socket read
    srvRec,      \* main: the record formatted from the frame last received
    sessFrames,  \* history: frames received from the channel in this session
    sessWrites,  \* history: socket writes attempted in this session
    ops,         \* history: other operations since the last accept completed
    flashLog,    \* history: successful flash writes
    apPc,        \* connection: the await it is at ("loop": not yet polled)
    apState,     \* the access point state kept by the wireless controller
    apConfig,    \* the configuration last applied to the controller
    apOps,       \* history: connection's operations since the last stop event
    fmtIn,       \* record formatting on its own: the frame to format
    fmtOut       \* record formatting on its own: the record built from it

vars == <<chan, rxPc, rxFrame, rxLast, extSeq, sent, delivered,
          srvPc, cmd, srvRec, sessFrames, sessWrites, ops, flashLog,
          apPc, apState, apConfig, apOps, fmtIn, fmtOut>>

rxVars == <<rxPc, rxFrame, rxLast, extSeq, sent>>
srvVars == <<srvPc, cmd, srvRec, sessFrames, sessWrites, ops, flashLog>>
apVars == <<apPc, apState, apConfig, apOps>>
fmtVars == <<fmtIn, fmtOut>>

\* ------------------------------------------------------------- CAN frames
\* The n-th extended frame on the bus.  Identifiers are 29-bit and distinct,
\* the first one the largest (2^29 - 1); the data length runs through 0..8
\* and every data byte is non-zero, so padding is told from data.
ExtBusFrame(n) ==
    [kind |-> "ext",
     id   |-> 2^29 - n,
     data |-> [i \in 1..(n % (DataLen + 1)) |-> 100 + ((7 * n + 13 * i) % 156)]]

\* Standard-format frames: 11-bit identifiers.
StdBusFrames ==
    { [kind |-> "std", id |-> 291, data |-> <<>>],
      [kind |-> "std", id |-> 2047, data |-> <<1, 2, 3>>] }

\* Err(e) of rx.receive_async()
BusError == [kind |-> "err", id |-> 0, data |-> <<>>]

NoFrame == [id |-> 0, data |-> <<>>]

\* Configuration::AccessPoint(AccessPointConfiguration { .. })
NoConfig ==
    [ssid |-> "", ssid_hidden |-> FALSE, channel |-> 0,
     auth_method |-> "None", max_connections |-> 0]
ApConfig ==
    [ssid |-> "ion-esp-diag", ssid_hidden |-> FALSE, channel |-> 1,
     auth_method |-> "WPA2Personal", max_connections |-> 5]

\* Ok(frame) / Err(e): what one rx.receive_async().await can return.
BusResults ==
    {BusError} \cup StdBusFrames
        \cup (IF extSeq < MaxExt THEN {ExtBusFrame(extSeq + 1)} ELSE {})

\* let mut data = [0u8; 8];
\* data[0..frame.data().len()].copy_from_slice(frame.data());
PadDataStale(d) == [i \in 1..DataLen |-> IF i <= Len(d) THEN d[i] ELSE 255]
PadData(d) == [i \in 1..DataLen |-> IF i <= Len(d) THEN d[i] ELSE 0]

\* CanFrame { id: id.as_raw(), data }
ToCanFrame(f) == [id |-> f.id, data |-> PadData(f.data)]

\* match frame.id() { Id::Standard(_id) => {}  Id::Extended(id) => {..} }
AcceptsAnyId(f) == f.kind \in {"std", "ext"}
Accepts(f) == f.kind = "ext"

\* ---------------------------------------------------------- Frame Channel
\* Channel<_, CanFrame, 16>: send suspends while the queue holds N elements.
ChanFullOffByOne(c) == Len(c) > Capacity
ChanFull(c) == Len(c) >= Capacity

\* send enqueues at the tail.
ChanSendFront(c, f) == <<f>> \o c
ChanSend(c, f) == Append(c, f)

\* receive dequeues at the head.
ChanReceiveNewest(c) == [frame |-> c[Len(c)], rest |-> SubSeq(c, 1, Len(c) - 1)]
ChanReceivePeek(c) == [frame |-> Head(c), rest |-> c]
ChanReceive(c) == [frame |-> Head(c), rest |-> Tail(c)]

\* ---------------------------------------------------------------- device
\* software_reset() and a panic (unwrap on Err, in main or in connection)
\* both end this execution: no task runs afterwards.
Running == srvPc \notin {"restarted", "panicked"} /\ apPc # "aborted"

\* One cooperative executor: while main runs the blocking reset path
\* (flash.write, software_reset) no other task is polled.
MainYielded == srvPc \notin {"flash_write", "software_reset"}

\* ------------------------------------------------------------- receiver
\* channel.send(CanFrame {..}).await : enqueue at once when there is room,
\* otherwise stay suspended in send holding the frame.
SendOrDrop(f) ==
    /\ sent' = Append(sent, f)
    /\ rxPc' = "recv"
    /\ rxFrame' = NoFrame
    /\ chan' = IF ChanFull(chan) THEN chan ELSE ChanSend(chan, f)
SendOrSuspend(f) ==
    /\ sent' = Append(sent, f)
    /\ IF ChanFull(chan)
          THEN /\ rxPc' = "send"
               /\ rxFrame' = f
               /\ chan' = chan
          ELSE /\ rxPc' = "recv"
               /\ rxFrame' = NoFrame
               /\ chan' = ChanSend(chan, f)

\* Err(e) => { println!("Receive error: {:?}\r", e); } and the loop goes on.
AfterBusErrorStops == "stopped"
AfterBusError == "recv"

\* One iteration of the receiver loop: rx.receive_async().await returns.
ReceiverRecv ==
    /\ Running
    /\ MainYielded
    /\ rxPc = "recv"
    /\ \E res \in BusResults :
         /\ extSeq' = IF res.kind = "ext" THEN extSeq + 1 ELSE extSeq
         /\ IF res.kind = "err"
               THEN /\ rxLast' = [res |-> res, did |-> "reported"]
                    /\ rxPc' = AfterBusError
                    /\ UNCHANGED <<chan, rxFrame, sent>>
               ELSE IF Accepts(res)
                       THEN /\ rxLast' = [res |-> res, did |-> "send"]
                            /\ SendOrSuspend(ToCanFrame(res))
                       ELSE /\ rxLast' = [res |-> res, did |-> "discarded"]
                            /\ UNCHANGED <<chan, rxPc, rxFrame, sent>>
    /\ UNCHANGED <<delivered, srvVars>>
    /\ UNCHANGED <<apVars, fmtVars>>

\* The suspended channel.send(..).await resumes once a slot is free.
ReceiverSend ==
    /\ Running
    /\ MainYielded
    /\ rxPc = "send"
    /\ ~ChanFull(chan)
    /\ chan' = ChanSend(chan, rxFrame)
    /\ rxPc' = "recv"
    /\ rxFrame' = NoFrame
    /\ UNCHANGED <<rxLast, extSeq, sent, delivered, srvVars>>
    /\ UNCHANGED <<apVars, fmtVars>>

\* ----------------------------------------------------------------- main
Op(name, arg) == [op |-> name, arg |-> arg]

NoCmd == [st |-> "none", bytes |-> <<>>]
NoRecord == [id |-> 0, data |-> <<>>, len |-> 0]

\* What socket_rx.read(&mut buffer).await can return: Err(e), or Ok(size)
\* with the bytes read (buffer[0..size]).
ReadResults ==
    { [st |-> "err", bytes |-> <<>>] }
        \cup { [st |-> "ok", bytes |-> b] :
                 b \in { <<>>, <<RESET_CMD>>, <<RESET_CMD, 1>>, <<1>> } }

\* size == 1 && buffer[0] == 0xFA
IsResetCommandAnySize(r) == Len(r.bytes) >= 1 /\ r.bytes[1] = RESET_CMD
IsResetCommand(r) == Len(r.bytes) = 1 /\ r.bytes[1] = RESET_CMD

\* if let Ok(size) = .. { if reset {..} else { println } } else { continue }
AfterReadNoContinue(r) ==
    IF r.st = "ok" /\ IsResetCommand(r) THEN "flash_write" ELSE "stream_recv"
AfterRead(r) ==
    IF r.st = "err" THEN "accept"
    ELSE IF IsResetCommand(r) THEN "flash_write" ELSE "stream_recv"

\* for byte in &mut bytes { *byte = 0xFF; }
FlashBytesCleared == [i \in 1..FlashLen |-> 0]
FlashBytes == [i \in 1..FlashLen |-> FlashFill]

\* Number of decimal digits of n, as {:?} prints an unsigned integer.
RECURSIVE DecLen(_)
DecLen(n) == IF n < 10 THEN 1 ELSE 1 + DecLen(n \div 10)

RECURSIVE SumDecLen(_)
SumDecLen(d) == IF d = <<>> THEN 0 ELSE DecLen(Head(d)) + SumDecLen(Tail(d))

\* writeln!(&mut frame_str, "{:?}", frame) with #[derive(Debug)]:
\*   "CanFrame { id: " id ", data: [" b1 ", " .. ", " b8 "] }" "\n"
\* The same frame under the pretty form {:#?}, one field and one byte per line.
RecordLenPretty(f) ==
    11 + (10 + DecLen(f.id)) + 12 + (10 * Len(f.data) + SumDecLen(f.data)) + 7 + 2

RecordLen(f) ==
    15 + DecLen(f.id) + 9 + SumDecLen(f.data) + 2 * (Len(f.data) - 1) + 3 + 1

\* The record is modelled by the fields its text shows and its length in bytes.
FormatFrame(f) == [id |-> f.id, data |-> f.data, len |-> RecordLen(f)]

\* match socket_tx.write_all(..).await { Ok(_) => {}  Err(e) => { ..; break } }
AfterWriteIgnoreError(ok) == "stream_recv"
AfterWriteRereads(ok) == IF ok THEN "read" ELSE "closing_delay1"
AfterWrite(ok) == IF ok THEN "stream_recv" ELSE "closing_delay1"

\* Timer::after(1000 ms).await; socket.close();
CloseStepsNoDelay == << Op("close", 0) >>
CloseSteps == << Op("delay", CloseDelayMs), Op("close", 0) >>

\* Timer::after(1000 ms).await; socket.abort();
AbortSteps == << Op("delay", CloseDelayMs), Op("abort", 0) >>

\* if let Err(e) = r { println!(..); continue; }
AfterAcceptNoContinue(ok) == "read"
AfterAccept(ok) == IF ok THEN "read" ELSE "accept"

\* flash.write(flash_addr, &bytes).unwrap()
AfterFlashWriteIgnoreError(ok) == "software_reset"
AfterFlashWrite(ok) == IF ok THEN "software_reset" ELSE "panicked"

\* socket.accept(..).await returns; on Err: println, continue.
MainAccept ==
    /\ Running
    /\ srvPc = "accept"
    /\ \E ok \in BOOLEAN :
         /\ ops' = << Op(IF ok THEN "accept_ok" ELSE "accept_err", 0) >>
         /\ srvPc' = AfterAccept(ok)
    /\ cmd' = NoCmd
    /\ srvRec' = NoRecord
    /\ sessFrames' = <<>>
    /\ sessWrites' = <<>>
    /\ UNCHANGED <<chan, delivered, rxVars, flashLog>>
    /\ UNCHANGED <<apVars, fmtVars>>

\* socket_rx.read(&mut buffer).await returns.
MainRead ==
    /\ Running
    /\ srvPc = "read"
    /\ \E r \in ReadResults :
         /\ cmd' = r
         /\ ops' = Append(ops, Op(IF r.st = "ok" THEN "read_ok" ELSE "read_err",
                                  Len(r.bytes)))
         /\ srvPc' = AfterRead(r)
    /\ UNCHANGED <<chan, delivered, rxVars, srvRec, sessFrames, sessWrites, flashLog>>
    /\ UNCHANGED <<apVars, fmtVars>>

\* flash.write(flash_addr, &bytes).unwrap(); println
MainFlashWrite ==
    /\ Running
    /\ srvPc = "flash_write"
    /\ \E ok \in BOOLEAN :
         IF ok
            THEN /\ flashLog' = Append(flashLog, [addr |-> flash_addr, bytes |-> FlashBytes])
                 /\ ops' = Append(ops, Op("flash_write", flash_addr))
                 /\ srvPc' = AfterFlashWrite(TRUE)
            ELSE /\ flashLog' = flashLog
                 /\ ops' = Append(ops, Op("flash_write_err", flash_addr))
                 /\ srvPc' = AfterFlashWrite(FALSE)
    /\ UNCHANGED <<chan, delivered, rxVars, cmd, srvRec, sessFrames, sessWrites>>
    /\ UNCHANGED <<apVars, fmtVars>>

\* software_reset()
MainSoftwareReset ==
    /\ Running
    /\ srvPc = "software_reset"
    /\ ops' = Append(ops, Op("software_reset", 0))
    /\ srvPc' = "restarted"
    /\ UNCHANGED <<chan, delivered, rxVars, cmd, srvRec, sessFrames, sessWrites, flashLog>>
    /\ UNCHANGED <<apVars, fmtVars>>

\* let frame = channel.receive().await; writeln!(..).unwrap();
MainChannelReceive ==
    /\ Running
    /\ srvPc = "stream_recv"
    /\ chan # <<>>
    /\ LET r   == ChanReceive(chan)
           rec == FormatFrame(r.frame)
       IN  /\ chan' = r.rest
           /\ delivered' = Append(delivered, r.frame)
           /\ sessFrames' = Append(sessFrames, r.frame)
           /\ IF rec.len > RecordCap
                 THEN /\ srvPc' = "panicked"
                      /\ srvRec' = NoRecord
                 ELSE /\ srvPc' = "stream_write"
                      /\ srvRec' = rec
    /\ UNCHANGED <<rxVars, cmd, sessWrites, ops, flashLog>>
    /\ UNCHANGED <<apVars, fmtVars>>

\* socket_tx.write_all(frame_str.as_bytes()).await returns.
MainWriteAll ==
    /\ Running
    /\ srvPc = "stream_write"
    /\ \E ok \in BOOLEAN :
         /\ sessWrites' = Append(sessWrites, [rec |-> srvRec, ok |-> ok])
         /\ ops' = IF ok THEN ops ELSE Append(ops, Op("write_err", 0))
         /\ srvPc' = AfterWrite(ok)
    /\ UNCHANGED <<chan, delivered, rxVars, cmd, srvRec, sessFrames, flashLog>>
    /\ UNCHANGED <<apVars, fmtVars>>

\* The first teardown timer fires; socket.close().
MainCloseSocket ==
    /\ Running
    /\ srvPc = "closing_delay1"
    /\ ops' = ops \o CloseSteps
    /\ srvPc' = "closing_delay2"
    /\ UNCHANGED <<chan, delivered, rxVars, cmd, srvRec, sessFrames, sessWrites, flashLog>>
    /\ UNCHANGED <<apVars, fmtVars>>

\* The second teardown timer fires; socket.abort(); back to the loop head.
MainAbortSocket ==
    /\ Running
    /\ srvPc = "closing_delay2"
    /\ ops' = ops \o AbortSteps
    /\ srvPc' = "accept"
    /\ UNCHANGED <<chan, delivered, rxVars, cmd, srvRec, sessFrames, sessWrites, flashLog>>
    /\ UNCHANGED <<apVars, fmtVars>>

\* ----------------------------------------------------------- connection
\* Timer::after(Duration::from_millis(5000)) after the stop event
SettleDelayMs == 5000

\* esp_wifi::wifi::get_wifi_state() == WifiState::ApStarted
WifiStateIsApStarted == apState = "Started"

\* matches!(controller.is_started(), Ok(true))
ControllerIsStarted == apState = "Started"

\* if !matches!(controller.is_started(), Ok(true)) { configure, start }
NeedsStartInverted(started) == started
NeedsStart(started) == ~started

\* controller.set_configuration(&client_config).unwrap()
AfterConfigRetry(ok) == IF ok THEN "starting" ELSE "loop"
AfterConfig(ok) == IF ok THEN "starting" ELSE "aborted"

\* controller.start().await.unwrap()
AfterStart(ok) == IF ok THEN "loop" ELSE "aborted"

\* The second if of the loop body and what follows it up to the next await.
\* suspended: whether this iteration has passed an await already; a body
\* that gets back to the loop head without one is position "spin".
StartIfNeeded(suspended, log) ==
    IF NeedsStart(ControllerIsStarted)
       THEN \E ok \in BOOLEAN :
              /\ apPc' = AfterConfig(ok)
              /\ apConfig' = IF ok THEN ApConfig ELSE apConfig
              /\ apState' = IF ok THEN "Starting" ELSE apState
              /\ apOps' = Append(log, Op(IF ok THEN "set_configuration"
                                               ELSE "set_configuration_err", 0))
       ELSE /\ apPc' = IF suspended THEN "loop" ELSE "spin"
            /\ apOps' = log
            /\ UNCHANGED <<apConfig, apState>>

\* The loop head: if get_wifi_state() == ApStarted { wait_for_event(ApStop) .. }
ConnectionLoop ==
    /\ Running
    /\ MainYielded
    /\ apPc = "loop"
    /\ IF WifiStateIsApStarted
          THEN /\ apPc' = "wait_event"
               /\ apOps' = Append(apOps, Op("wait_for_event", 0))
               /\ UNCHANGED <<apConfig, apState>>
          ELSE StartIfNeeded(FALSE, apOps)
    /\ UNCHANGED <<chan, delivered, rxVars, srvVars, fmtVars>>

ConnectionStopEventNoDelay ==
    /\ Running
    /\ MainYielded
    /\ apPc = "wait_event"
    /\ apState = "Started"
    /\ \E ok \in BOOLEAN :
         /\ apPc' = AfterConfig(ok)
         /\ apConfig' = IF ok THEN ApConfig ELSE apConfig
         /\ apState' = IF ok THEN "Starting" ELSE "Stopped"
         /\ apOps' = << Op("ap_stop", 0),
                        Op(IF ok THEN "set_configuration" ELSE "set_configuration_err", 0) >>
    /\ UNCHANGED <<chan, delivered, rxVars, srvVars, fmtVars>>

\* The access point stops while connection is suspended in
\* wait_for_event(WifiEvent::ApStop): the wait returns and the settle timer
\* is started.
ConnectionStopEvent ==
    /\ Running
    /\ MainYielded
    /\ apPc = "wait_event"
    /\ apState = "Started"
    /\ apState' = "Stopped"
    /\ apPc' = "settle"
    /\ apOps' = << Op("ap_stop", 0) >>
    /\ UNCHANGED <<apConfig, chan, delivered, rxVars, srvVars, fmtVars>>

\* Timer::after(5000 ms).await returns; on to the second if.
ConnectionSettled ==
    /\ Running
    /\ MainYielded
    /\ apPc = "settle"
    /\ StartIfNeeded(TRUE, Append(apOps, Op("delay", SettleDelayMs)))
    /\ UNCHANGED <<chan, delivered, rxVars, srvVars, fmtVars>>

\* controller.start().await returns; unwrap; println; back to the loop head.
ConnectionStartDone ==
    /\ Running
    /\ MainYielded
    /\ apPc = "starting"
    /\ \E ok \in BOOLEAN :
         /\ apPc' = AfterStart(ok)
         /\ apState' = IF ok THEN "Started" ELSE "Stopped"
         /\ apOps' = Append(apOps, Op(IF ok THEN "start" ELSE "start_err", 0))
    /\ UNCHANGED <<apConfig, chan, delivered, rxVars, srvVars, fmtVars>>

\* ------------------------------------------------------- specifications
Init ==
    /\ chan = <<>>
    /\ rxPc = "recv"
    /\ rxFrame = NoFrame
    /\ rxLast = [res |-> [kind |-> "none", id |-> 0, data |-> <<>>], did |-> "none"]
    /\ extSeq = 0
    /\ sent = <<>>
    /\ delivered = <<>>
    /\ srvPc = "accept"
    /\ cmd = NoCmd
    /\ srvRec = NoRecord
    /\ sessFrames = <<>>
    /\ sessWrites = <<>>
    /\ ops = <<>>
    /\ flashLog = <<>>
    /\ apPc = "loop"
    /\ apState = "Stopped"
    /\ apConfig = NoConfig
    /\ apOps = <<>>
    /\ fmtIn = NoFrame
    /\ fmtOut = NoRecord

Next ==
    \/ ReceiverRecv
    \/ ReceiverSend
    \/ MainAccept
    \/ MainRead
    \/ MainFlashWrite
    \/ MainSoftwareReset
    \/ MainChannelReceive
    \/ MainWriteAll
    \/ MainCloseSocket
    \/ MainAbortSocket

Spec == Init /\ [][Next]_vars

ApNext ==
    \/ ConnectionLoop
    \/ ConnectionStopEvent
    \/ ConnectionSettled
    \/ ConnectionStartDone

\* The whole system: receiver, main and connection on one executor.
SysNext == Next \/ ApNext

SysSpec == Init /\ [][SysNext]_vars

\* The system while no client connects: main stays suspended in accept, the
\* receiver and connection run.
IdleNext == ReceiverRecv \/ ApNext

ApSpec == Init /\ [][IdleNext]_vars

\* Timers fire and controller.start() returns; stop events are not assumed.
ApFairSpec ==
    /\ ApSpec
    /\ WF_vars(ConnectionLoop)
    /\ WF_vars(ConnectionSettled)
    /\ WF_vars(ConnectionStartDone)

\* The executor runs every task that is ready, timers fire, and every socket
\* operation returns (with a result or an error); bus traffic is not assumed.
FairSpec ==
    /\ Spec
    /\ WF_vars(ReceiverSend)
    /\ WF_vars(MainAccept)
    /\ WF_vars(MainRead)
    /\ WF_vars(MainFlashWrite)
    /\ WF_vars(MainSoftwareReset)
    /\ WF_vars(MainChannelReceive)
    /\ WF_vars(MainWriteAll)
    /\ WF_vars(MainCloseSocket)
    /\ WF_vars(MainAbortSocket)

\* ------------------------------------------------------------ properties
IsPrefix(p, q) == Len(p) <= Len(q) /\ SubSeq(q, 1, Len(p)) = p

Zeros(n) == [k \in 1..n |-> 0]

\* C1: in every reachable state the Frame Channel holds between 0 and 16
\* frames, 16 being its fixed capacity.
C1_ChannelBounded ==
    /\ Len(chan) >= 0
    /\ Len(chan) <= Capacity
    /\ Capacity = 16

\* A full channel, after the server has already received from it.
C1_Witness == Len(chan) = Capacity /\ delivered # <<>>

\* C2: the frames the Diagnostic Server has obtained from receive() are a
\* prefix of the frames the Bus Receiver has passed to send, in the same
\* order.
C2_FifoOrder == IsPrefix(delivered, sent)

\* More frames delivered than the channel can hold: receives interleaved
\* with sends.
C2_Witness == Len(delivered) > Capacity /\ Len(sessFrames) > 1

\* C3: a send on a channel holding 16 frames does not complete and leaves the
\* channel unchanged; only a receive by the server changes the channel while
\* the send is suspended; the suspended frame is then enqueued at the tail;
\* every frame passed to send is delivered, in the channel or still held by
\* the suspended send.
C3_Backpressure ==
    /\ [][ (rxPc = "recv" /\ Len(chan) = Capacity /\ Len(sent') > Len(sent))
             => /\ rxPc' = "send"
                /\ rxFrame' = sent'[Len(sent')]
                /\ chan' = chan ]_vars
    /\ [][ (rxPc = "send" /\ Len(chan) = Capacity)
             => /\ rxPc' = "send"
                /\ rxFrame' = rxFrame
                /\ \/ chan' = chan
                   \/ /\ chan' = Tail(chan)
                      /\ delivered' = Append(delivered, Head(chan)) ]_vars
    /\ [][ (rxPc = "send" /\ rxPc' = "recv")
             => /\ Len(chan) < Capacity
                /\ chan' = Append(chan, rxFrame) ]_vars
    /\ [](sent = delivered \o chan \o (IF rxPc = "send" THEN <<rxFrame>> ELSE <<>>))

\* The receiver suspended in send on a full channel.
C3_Witness == rxPc = "send" /\ Len(chan) = Capacity /\ rxFrame = sent[Len(sent)]

\* C4: every element of the channel comes from a decoded extended-format
\* frame, carries its raw identifier and an 8-byte payload: the received
\* bytes followed by zeros; a standard-format frame leaves the channel
\* unchanged and never appears in it.
C4_FilterPolicy ==
    /\ [](\A i \in 1..Len(chan) :
            /\ Len(chan[i].data) = 8
            /\ \A b \in StdBusFrames : chan[i].id # b.id
            /\ \E n \in 1..extSeq :
                 LET b == ExtBusFrame(n)
                 IN  /\ b.kind = "ext"
                     /\ Len(b.data) <= 8
                     /\ chan[i].id = b.id
                     /\ chan[i].data = b.data \o Zeros(8 - Len(b.data)))
    /\ [][ (rxLast'.res.kind = "std" /\ rxLast' # rxLast)
             => /\ chan' = chan
                /\ sent' = sent
                /\ rxPc' = "recv" ]_vars

\* The channel holds a zero-padded frame and a full-length one, and a
\* standard-format frame has just been received.
C4_Witness ==
    /\ rxLast.res.kind = "std"
    /\ \E i \in 1..Len(chan) : chan[i].data[1] # 0 /\ chan[i].data[8] = 0
    /\ \E i \in 1..Len(chan) : chan[i].data[8] # 0

\* C5 as stated: the send of every decoded extended frame eventually
\* completes (at the latest when the device stops running).
C5_SendCompletes == (rxPc = "send") ~> (rxPc = "recv" \/ ~Running)

\* C5 amended: a decoded extended frame is enqueued at once when the channel
\* has room and otherwise stays held by the suspended send, which enqueues
\* exactly that frame; the send completes once a slot is free, unless the
\* device has restarted or halted.
C5_ExtendedFrameKept ==
    /\ [][ (extSeq' = extSeq + 1)
             => LET f == ToCanFrame(ExtBusFrame(extSeq + 1))
                IN  /\ sent' = Append(sent, f)
                    /\ IF Len(chan) < Capacity
                          THEN chan' = Append(chan, f) /\ rxPc' = "recv"
                          ELSE chan' = chan /\ rxPc' = "send" /\ rxFrame' = f ]_vars
    /\ [][ (rxPc = "send")
             => \/ rxPc' = "send" /\ rxFrame' = rxFrame
                \/ rxPc' = "recv" /\ chan' = Append(chan, rxFrame) ]_vars
    /\ ((rxPc = "send" /\ Len(chan) < Capacity) ~> (rxPc = "recv" \/ ~Running))

\* The receiver suspended in send while the server is not streaming.
C5_Witness == rxPc = "send" /\ srvPc = "accept" /\ Len(chan) = Capacity

\* ---------------------------------------------------- session properties
Last(q) == q[Len(q)]

\* The session states of the Diagnostic Server, read off its position.
InStreaming == srvPc \in {"stream_recv", "stream_write"}
InClosing == srvPc \in {"closing_delay1", "closing_delay2"}

\* This session's read returned exactly the one byte 0xFA.
ResetSession == cmd.st = "ok" /\ cmd.bytes = <<250>>

\* This session's read succeeded with anything else.
OtherSession == cmd.st = "ok" /\ cmd.bytes # <<250>>

ResetWrite == [addr |-> 53248, bytes |-> [i \in 1..32 |-> 255]]

\* C6 as stated: a session whose read returned the single byte 0xFA, once
\* past the flash write and the reset call, has written once and restarted.
C6_ResetAlwaysRestarts ==
    (ResetSession /\ srvPc \notin {"flash_write", "software_reset"})
        => (srvPc = "restarted" /\ flashLog = <<ResetWrite>>)

\* C6 amended: such a session never streams, receives or writes to the
\* socket; it attempts the flash write exactly once; if the write succeeds,
\* it is one write of 32 bytes 0xFF at 0xd000 and the restart follows it; if
\* the write fails nothing is written and the device halts without restart.
C6_ResetOnSuccessfulWrite ==
    /\ [](ResetSession =>
            /\ sessFrames = <<>>
            /\ sessWrites = <<>>
            /\ ops[1] = Op("accept_ok", 0)
            /\ ops[2] = Op("read_ok", 1)
            /\ CASE srvPc = "flash_write" ->
                      flashLog = <<>> /\ Len(ops) = 2
                 [] srvPc = "software_reset" ->
                      /\ flashLog = <<ResetWrite>>
                      /\ SubSeq(ops, 3, Len(ops)) = << Op("flash_write", 53248) >>
                 [] srvPc = "restarted" ->
                      /\ flashLog = <<ResetWrite>>
                      /\ SubSeq(ops, 3, Len(ops)) =
                           << Op("flash_write", 53248), Op("software_reset", 0) >>
                 [] srvPc = "panicked" ->
                      /\ flashLog = <<>>
                      /\ SubSeq(ops, 3, Len(ops)) = << Op("flash_write_err", 53248) >>
                 [] OTHER -> FALSE)
    /\ (ResetSession ~> (srvPc = "restarted" \/ srvPc = "panicked"))

\* The device restarted after the one flash write, with frames still queued.
C6_Witness == ResetSession /\ srvPc = "restarted" /\ Len(flashLog) = 1 /\ chan # <<>>

\* C7: a session whose read succeeds with anything but the single byte 0xFA
\* goes from AwaitingCommand to Streaming, and no flash write or restart
\* happens in it.
C7_OtherContentStreams ==
    /\ [][ (srvPc = "read" /\ cmd'.st = "ok" /\ cmd'.bytes # <<250>>)
             => (srvPc' = "stream_recv" /\ flashLog' = flashLog) ]_vars
    /\ [](OtherSession =>
            /\ flashLog = <<>>
            /\ \A i \in 1..Len(ops) :
                 ops[i].op \notin {"flash_write", "flash_write_err", "software_reset"}
            /\ \/ InStreaming
               \/ InClosing
               \/ srvPc = "accept" /\ Last(ops).op = "abort")

\* Streaming after a first read of 0xFA followed by another byte.
C7_Witness == cmd.bytes = <<250, 1>> /\ srvPc = "stream_write" /\ Len(sessWrites) > 0

\* C8 as stated: after a failed read or a read of zero bytes the connection
\* is aborted and the server is back at Accept, without having streamed.
C8_FailedOrEmptyReadAborts ==
    (cmd.st = "err" \/ (cmd.st = "ok" /\ cmd.bytes = <<>>))
        => /\ srvPc = "accept"
           /\ sessFrames = <<>>
           /\ sessWrites = <<>>
           /\ Last(ops).op = "abort"

\* C8 amended: after a failed read the server is back at Accept having done
\* nothing else in the session (no receive, no write, no close, no abort);
\* a read of zero bytes is a successful read and leads to Streaming.
C8_FailedReadReturnsToAccept ==
    /\ [](cmd.st = "err" =>
            /\ srvPc = "accept"
            /\ sessFrames = <<>>
            /\ sessWrites = <<>>
            /\ ops = << Op("accept_ok", 0), Op("read_err", 0) >>)
    /\ [][ (srvPc = "read" /\ cmd'.st = "ok" /\ cmd'.bytes = <<>>)
             => srvPc' = "stream_recv" ]_vars

\* Back at Accept after a failed read, with frames waiting in the channel.
C8_Witness == cmd.st = "err" /\ srvPc = "accept" /\ chan # <<>>

\* C9: Streaming is left only by a failed socket write, which leads to
\* Closing at once; the records written are the frames received, in order,
\* one write per receive; with the channel empty the session stays in
\* Streaming.
C9_StreamingEndsOnWriteFailure ==
    /\ [][ (InStreaming /\ ~InStreaming')
             => /\ srvPc = "stream_write"
                /\ srvPc' = "closing_delay1"
                /\ ~Last(sessWrites').ok
                /\ sessFrames' = sessFrames
                /\ delivered' = delivered ]_vars
    /\ [][ (Len(sessWrites') > Len(sessWrites) /\ ~Last(sessWrites').ok)
             => srvPc' = "closing_delay1" ]_vars
    /\ [][ (srvPc = "stream_recv" /\ chan = <<>>) => srvPc' = "stream_recv" ]_vars
    /\ [](/\ Len(sessWrites) =
               Len(sessFrames) - (IF srvPc = "stream_write" THEN 1 ELSE 0)
          /\ \A i \in 1..Len(sessWrites) :
               /\ sessWrites[i].rec.id = sessFrames[i].id
               /\ sessWrites[i].rec.data = sessFrames[i].data
               /\ sessWrites[i].rec.len <= 80
               /\ (i < Len(sessWrites) => sessWrites[i].ok)
          /\ IsPrefix(sessFrames, SubSeq(sent, Len(delivered) - Len(sessFrames) + 1,
                                         Len(sent))))

\* Closing reached by a failed write after successful ones.
C9_Witness == srvPc = "closing_delay1" /\ Len(sessWrites) > 2 /\ ~Last(sessWrites).ok

\* C10: Closing is delay 1000 ms, close, delay 1000 ms, abort, each once and
\* in this order, then Accept; nothing is received from the channel or
\* written to the socket meanwhile; Closing always ends at Accept.
C10_ClosingSequence ==
    /\ [](srvPc = "closing_delay1" => Len(ops) = 3 /\ ops[3] = Op("write_err", 0))
    /\ [](srvPc = "closing_delay2" =>
            SubSeq(ops, 3, Len(ops)) =
              << Op("write_err", 0), Op("delay", 1000), Op("close", 0) >>)
    /\ [][ (InClosing /\ ~InClosing')
             => /\ srvPc' = "accept"
                /\ SubSeq(ops', 3, Len(ops')) =
                     << Op("write_err", 0), Op("delay", 1000), Op("close", 0),
                        Op("delay", 1000), Op("abort", 0) >> ]_vars
    /\ [][ InClosing
             => /\ sessFrames' = sessFrames
                /\ sessWrites' = sessWrites
                /\ delivered' = delivered
                /\ (chan' = chan \/ \E f \in {rxFrame, Last(sent')} : chan' = Append(chan, f)) ]_vars
    /\ (InClosing ~> (srvPc = "accept"))

\* Back at Accept after the complete teardown.
C10_Witness == srvPc = "accept" /\ Len(ops) = 7 /\ Last(ops) = Op("abort", 0)

\* ------------------------------------------------ connection properties
FixedApConfig ==
    [ssid |-> "ion-esp-diag", ssid_hidden |-> FALSE, channel |-> 1,
     auth_method |-> "WPA2Personal", max_connections |-> 5]

\* The access point stopped by an event that connection observed.
StoppedByEvent == apOps # <<>> /\ Head(apOps) = Op("ap_stop", 0)

\* C11: after a stop event observed in Started the manager waits 5000 ms,
\* then applies the fixed configuration and issues start; if both succeed the
\* access point is Started again; the manager never waits for a stop event
\* with the access point stopped.
C11_ApRestartsAfterStop ==
    /\ [][ (apState = "Started" /\ apState' # "Started")
             => (apPc = "wait_event" /\ apPc' = "settle" /\ apState' = "Stopped") ]_vars
    /\ [](apPc = "wait_event" => apState = "Started")
    /\ [](StoppedByEvent =>
            CASE apPc = "settle" -> apState = "Stopped" /\ Len(apOps) = 1
              [] apPc = "starting" ->
                   /\ apState = "Starting"
                   /\ apConfig = FixedApConfig
                   /\ SubSeq(apOps, 2, Len(apOps)) =
                        << Op("delay", 5000), Op("set_configuration", 0) >>
              [] apPc \in {"loop", "wait_event"} ->
                   /\ apState = "Started"
                   /\ apConfig = FixedApConfig
                   /\ SubSeq(apOps, 2, 4) =
                        << Op("delay", 5000), Op("set_configuration", 0), Op("start", 0) >>
              [] apPc = "aborted" ->
                   Last(apOps).op \in {"set_configuration_err", "start_err"}
              [] OTHER -> FALSE)
    /\ ((apState = "Stopped" /\ StoppedByEvent)
          ~> (apState = "Started" \/ apPc = "aborted"))

\* Started again after an observed stop event.
C11_Witness == StoppedByEvent /\ apState = "Started" /\ apPc = "wait_event"

\* C14: a failed set_configuration or start aborts the task: nothing more is
\* configured or started and the access point is never Started afterwards.
C14_ApFailureIsFatal ==
    /\ [][ (apOps' # apOps /\ Last(apOps').op \in {"set_configuration_err", "start_err"})
             => apPc' = "aborted" ]_vars
    /\ [](apPc = "aborted" =>
            /\ apState # "Started"
            /\ Last(apOps).op \in {"set_configuration_err", "start_err"})
    /\ [][ (apPc = "aborted")
             => (apPc' = "aborted" /\ apOps' = apOps /\ apState' = apState
                 /\ apConfig' = apConfig) ]_vars

\* Aborted by a failed start during the restart after a stop event.
C14_Witness == apPc = "aborted" /\ StoppedByEvent /\ Last(apOps) = Op("start_err", 0)

\* The positions at which a task is suspended in an await.
ReceiverAwaits == {"recv", "send"}
MainAwaits ==
    {"accept", "read", "stream_recv", "stream_write", "closing_delay1", "closing_delay2"}
ConnectionAwaits == {"wait_event", "settle", "starting"}

\* Formatting on its own: the frames a channel slot can hold, with the
\* identifier at every digit-count boundary and bytes of every digit count.
FmtIds == {0, 2^29 - 1} \cup { 10^k - 1 : k \in 1..8 } \cup { 10^k : k \in 1..8 }
FmtBytes == {0, 10, 255}
FmtData == [1..DataLen -> FmtBytes]
FmtFrames == { [id |-> i, data |-> d] : i \in FmtIds, d \in FmtData }

FmtInit ==
    /\ chan = <<>>
    /\ rxPc = "recv"
    /\ rxFrame = NoFrame
    /\ rxLast = [res |-> [kind |-> "none", id |-> 0, data |-> <<>>], did |-> "none"]
    /\ extSeq = 0
    /\ sent = <<>>
    /\ delivered = <<>>
    /\ srvPc = "stream_recv"
    /\ cmd = NoCmd
    /\ srvRec = NoRecord
    /\ sessFrames = <<>>
    /\ sessWrites = <<>>
    /\ ops = <<>>
    /\ flashLog = <<>>
    /\ apPc = "loop"
    /\ apState = "Stopped"
    /\ apConfig = NoConfig
    /\ apOps = <<>>
    /\ fmtIn \in FmtFrames
    /\ fmtOut = NoRecord

\* writeln!(&mut frame_str, "{:?}", frame) on the frame just received; a
\* record over the buffer's capacity is the Err that unwrap() turns into a
\* panic.
FormatStep ==
    /\ srvPc = "stream_recv"
    /\ fmtOut = NoRecord
    /\ LET rec == FormatFrame(fmtIn)
       IN  /\ fmtOut' = rec
           /\ srvPc' = IF rec.len > RecordCap THEN "panicked" ELSE "stream_write"
    /\ UNCHANGED <<chan, rxVars, delivered, cmd, srvRec, sessFrames, sessWrites, ops,
                   flashLog, apVars, fmtIn>>

FmtNext == FormatStep

FmtSpec == FmtInit /\ [][FmtNext]_vars

\* C12: no task is ever in a loop iteration that got back to the loop head
\* without an await: receiver and main are at an await (main else in the
\* reset path, which leaves the loops), connection is at an await, not yet
\* polled, or aborted, never spinning.
C12_EveryIterationSuspends ==
    /\ rxPc \in ReceiverAwaits
    /\ srvPc \in MainAwaits \cup {"flash_write", "software_reset", "restarted", "panicked"}
    /\ apPc \in ConnectionAwaits \cup {"loop", "aborted"}
    /\ apPc # "spin"
    /\ (apPc = "loop" => (apOps = <<>> \/ Last(apOps) = Op("start", 0)))

\* All three tasks have gone round their loops: connection restarted the
\* access point, main retried after a failed read, the receiver reported an
\* error.
C12_Witness ==
    /\ StoppedByEvent
    /\ apPc = "wait_event"
    /\ srvPc = "accept"
    /\ ops # <<>>
    /\ Last(ops).op = "read_err"
    /\ rxLast.did = "reported"
    /\ extSeq > 0

\* C13: a bus receive error is reported and changes neither the channel nor
\* the frames sent; the receiver goes on to the next receive, where an
\* extended frame is enqueued (or held by the suspended send) as usual.
C13_BusErrorNonFatal ==
    /\ [][ (rxLast' # rxLast /\ rxLast'.res.kind = "err")
             => /\ rxLast'.did = "reported"
                /\ rxPc' = "recv"
                /\ chan' = chan
                /\ sent' = sent
                /\ rxFrame' = rxFrame ]_vars
    /\ [](rxLast.res.kind = "err" => rxPc = "recv")
    /\ []((rxLast.res.kind = "err" /\ Running /\ MainYielded /\ extSeq < MaxExt)
            => ENABLED (ReceiverRecv /\ extSeq' = extSeq + 1))
    /\ [][ (rxLast.res.kind = "err" /\ extSeq' = extSeq + 1)
             => LET f == ToCanFrame(ExtBusFrame(extSeq'))
                IN  /\ sent' = Append(sent, f)
                    /\ \/ chan' = Append(chan, f)
                       \/ Len(chan) = Capacity /\ rxPc' = "send" /\ rxFrame' = f ]_vars

\* An error has just been reported, after frames were enqueued.
C13_Witness == rxLast.res.kind = "err" /\ rxLast.did = "reported" /\ Len(chan) > 2

\* C15: a failed flash write in the reset path halts the device: no restart,
\* no Streaming, no return to Accept, and nothing changes afterwards.
C15_FlashFailureIsFatal ==
    /\ [][ (ops' # ops /\ Last(ops').op = "flash_write_err")
             => (srvPc = "flash_write" /\ srvPc' = "panicked" /\ flashLog' = flashLog) ]_vars
    /\ [](srvPc = "panicked" =>
            /\ Last(ops) = Op("flash_write_err", flash_addr)
            /\ flashLog = <<>>
            /\ sessFrames = <<>>
            /\ sessWrites = <<>>
            /\ ~ENABLED Next)
    /\ [][ srvPc = "panicked" => srvPc' = "panicked" ]_vars

\* Halted after the failed flash write, with frames left in the channel.
C15_Witness == srvPc = "panicked" /\ Last(ops).op = "flash_write_err" /\ chan # <<>>

\* C16: after a failed accept nothing but the next accept follows; the error
\* is not fatal; AwaitingCommand is entered only from a successful accept.
C16_AcceptErrorRetries ==
    /\ [][ (ops' # ops /\ Last(ops').op = "accept_err")
             => /\ srvPc = "accept"
                /\ srvPc' = "accept"
                /\ ops' = << Op("accept_err", 0) >>
                /\ flashLog' = flashLog
                /\ chan' = chan ]_vars
    /\ []((ops # <<>> /\ Last(ops).op = "accept_err") =>
            /\ srvPc = "accept"
            /\ Len(ops) = 1
            /\ sessFrames = <<>>
            /\ sessWrites = <<>>
            /\ cmd.st = "none"
            /\ Running
            /\ ENABLED MainAccept)
    /\ [][ (srvPc # "read" /\ srvPc' = "read")
             => (srvPc = "accept" /\ ops' = << Op("accept_ok", 0) >>) ]_vars
    /\ [](srvPc = "read" => ops = << Op("accept_ok", 0) >>)

\* At Accept again after a failed accept, with frames waiting.
C16_Witness == srvPc = "accept" /\ ops = << Op("accept_err", 0) >> /\ chan # <<>>

\* C17: a session reads the socket at most once, as its first operation
\* after accept; the flash write and the restart are entered only from that
\* read; from Streaming and Closing there is no read, no flash write and no
\* restart until the next session's read.
ReadOps(q) == { i \in 1..Len(q) : q[i].op \in {"read_ok", "read_err"} }

C17_SingleReadDecidesReset ==
    /\ [](ReadOps(ops) \subseteq {2})
    /\ [](cmd.st # "none" <=> ReadOps(ops) = {2})
    /\ [][ (srvPc # "flash_write" /\ srvPc' = "flash_write")
             => (srvPc = "read" /\ cmd' = [st |-> "ok", bytes |-> <<250>>]) ]_vars
    /\ [][ (flashLog' # flashLog \/ srvPc' \in {"software_reset", "restarted"})
             => srvPc \in {"flash_write", "software_reset", "restarted"} ]_vars
    /\ [][ (InStreaming \/ InClosing)
             => /\ srvPc' \in {"stream_recv", "stream_write", "closing_delay1",
                              "closing_delay2", "accept"}
                /\ cmd' = cmd
                /\ flashLog' = flashLog ]_vars

\* Streaming for a while in a session that did its one read.
C17_Witness == InStreaming /\ Len(sessWrites) > 1 /\ ReadOps(ops) = {2}

\* C18: the frame taken from the channel before a failed write is not put
\* back and not sent again: the failed write changes neither the channel nor
\* what was delivered, the next session starts with the frame that follows
\* it, and a session that ended on a failed write lost exactly its last frame.
C18_FrameLostOnFailedWrite ==
    /\ [][ (sessWrites' # sessWrites /\ sessWrites' # <<>> /\ ~Last(sessWrites').ok)
             => /\ chan' = chan
                /\ delivered' = delivered
                /\ Last(sessWrites').rec = FormatFrame(Last(delivered))
                /\ srvPc' = "closing_delay1" ]_vars
    /\ [](\A i \in 1..Len(delivered) : \A j \in 1..Len(chan) : delivered[i] # chan[j])
    /\ [](\A i \in 1..Len(delivered) : delivered[i] = sent[i])
    /\ [][ (sessFrames' # sessFrames /\ sessFrames = <<>> /\ srvPc = "stream_recv")
             => /\ sessFrames' = << sent[Len(delivered) + 1] >>
                /\ delivered' = Append(delivered, sent[Len(delivered) + 1]) ]_vars
    /\ [](InClosing =>
            /\ Len(sessWrites) = Len(sessFrames)
            /\ sessFrames # <<>>
            /\ ~Last(sessWrites).ok
            /\ \A i \in 1..(Len(sessWrites) - 1) : sessWrites[i].ok
            /\ \A i \in 1..Len(sessWrites) : sessWrites[i].rec = FormatFrame(sessFrames[i])
            /\ Last(sessFrames) = Last(delivered))

\* The session after one that lost a frame has written its first frame, the
\* one following the lost frame.
C18_Witness ==
    /\ InStreaming
    /\ Len(sessWrites) = 1
    /\ sessWrites[1].ok
    /\ Len(delivered) = 3
    /\ sessFrames = << sent[3] >>

\* C19: main changes the channel only by taking its oldest frame in
\* Streaming; Accept, AwaitingCommand, the reset path and Closing leave it
\* alone, so frames enqueued meanwhile stay, in order, for the next session.
C19_ChannelKeptBetweenSessions ==
    /\ [][ (srvVars' # srvVars \/ delivered' # delivered)
             => IF srvPc = "stream_recv"
                   THEN /\ chan # <<>>
                        /\ chan' = Tail(chan)
                        /\ delivered' = Append(delivered, Head(chan))
                        /\ Last(sessFrames') = Head(chan)
                   ELSE /\ chan' = chan
                        /\ delivered' = delivered ]_vars
    /\ [][ chan' # chan
             => \/ (srvPc = "stream_recv" /\ chan # <<>> /\ chan' = Tail(chan))
                \/ (srvVars' = srvVars /\ Len(chan) < Capacity /\ Len(chan') = Len(chan) + 1
                      /\ SubSeq(chan', 1, Len(chan)) = chan) ]_vars
    /\ [](\A j \in 1..Len(chan) : chan[j] = sent[Len(delivered) + j])

\* A later session has taken its first frame from a channel that filled up
\* while nobody was streaming.
C19_Witness ==
    /\ srvPc = "stream_write"
    /\ Len(sessFrames) = 1
    /\ Len(delivered) > 1
    /\ Len(chan) = Capacity - 1

\* C20: the record of any frame a channel slot can hold fits the 80-byte
\* buffer, so formatting does not fail and Streaming goes on to the write.
C20_RecordFitsBuffer ==
    /\ fmtIn \in FmtFrames
    /\ (fmtOut # NoRecord =>
          /\ fmtOut.id = fmtIn.id
          /\ fmtOut.data = fmtIn.data
          /\ fmtOut.len <= RecordCap
          /\ fmtOut.len >= 43
          /\ srvPc = "stream_write")
    /\ srvPc # "panicked"

\* The longest record: a 9-digit identifier and eight 3-digit bytes.
C20_Witness ==
    /\ fmtOut # NoRecord
    /\ fmtIn.id = 2^29 - 1
    /\ \A i \in 1..DataLen : fmtIn.data[i] = 255
    /\ fmtOut.len = 75

====
